---- MODULE Spec2Model ----
(***************************************************************************)
(* A model of src/main.py, the SMARD extract-transform-load job:           *)
(*   get_available_blocks, fetch_smard_data  - the two HTTP readers        *)
(*   transform_data                          - long -> wide + derived cols *)
(*   load_to_google_sheets                   - the remote sink             *)
(*   run_etl                                 - the sequential orchestrator *)
(*                                                                         *)
(* Representation.  A cell of a table is a record [k, v]:                  *)
(*   [k |-> "num", v |-> n]   a finite number                              *)
(*   [k |-> "nan", v |-> 0]   pandas NaN (a missing value)                 *)
(*   [k |-> "inf", v |-> s]   float infinity of sign s                     *)
(*   [k |-> "null", v |-> 0]  JSON null / Python None as delivered         *)
(*   [k |-> "ts",  v |-> t]   a point in time                              *)
(* Metric columns hold the delivered unit; the four derived columns are    *)
(* rounded to two decimals and are held in hundredths of a unit.           *)
(* The order of the columns of a table is not modelled: a row is a         *)
(* function from column names to cells.                                    *)
(***************************************************************************)
EXTENDS Integers, Sequences, FiniteSets, TLC

VARIABLES
    base,            \* the state of the SMARD API during the run: "up" or "down"
    deviations,      \* how many metrics so far answered differently from the base
    upstream,        \* what the API holds for the metric being extracted
    pc,              \* position of run_etl
    fi,              \* index into filter_lst of the metric being extracted
    blocks,          \* run_etl's local `blocks`, after the sort
    bi,              \* index into blocks[0:BLOCKS_TO_FETCH] of the next block to fetch
    raw_data,        \* run_etl's per-metric buffer
    raw_data_frame,  \* run_etl's long records [ts, name, value]
    df_clean,        \* the table transform_data returned to run_etl
    csv_file,        \* content of smard_data.csv
    sheet,           \* content of the Google worksheet
    sink_calls,      \* how often load_to_google_sheets was entered
    exc,             \* the exception that left run_etl, and the function that raised it
    calls,           \* history: the calls of the two readers, with what they returned
    raw_in,          \* the long-record list handed to transform_data on its own
    out_once,        \* transform_data(raw_in)
    out_twice        \* transform_data(raw_in + raw_in)

vars == << base, deviations, upstream, pc, fi, blocks, bi, raw_data, raw_data_frame,
           df_clean, csv_file, sheet, sink_calls, exc, calls, raw_in, out_once,
           out_twice >>

-----------------------------------------------------------------------------
(* Configuration, src/main.py:12-49 and 200-214 *)

REGION == "DE"

BLOCKS_TO_FETCH == 2

SMARD_FILTER ==
    [ NETZLAST |-> 410, BRAUNKOHLE |-> 1223, WINDOFFSHORE |-> 1225, WATER |-> 1226,
      FOSSIL_MISC |-> 1227, RENEWABLE_MISC |-> 1228, BIOGAS |-> 4066,
      WINDONSHORE |-> 4067, SOLAR |-> 4068, STEINKOHLE |-> 4069,
      PUMPSTORAGE |-> 4070, GAS |-> 4071, RESIDUALLOAD |-> 4359,
      PUMPEDCONSUMED |-> 4387, PRICE_DE |-> 4169, PRICE_BG |-> 4996,
      PRICE_NW |-> 4997, PRICE_AU |-> 4170, PRICE_FR |-> 254, PRICE_PL |-> 258,
      PRICE_IT |-> 255, PRICE_CH |-> 259, PRICE_UN |-> 262 ]

filter_lst ==
    << SMARD_FILTER.NETZLAST, SMARD_FILTER.BRAUNKOHLE, SMARD_FILTER.STEINKOHLE,
       SMARD_FILTER.GAS, SMARD_FILTER.FOSSIL_MISC, SMARD_FILTER.WINDOFFSHORE,
       SMARD_FILTER.WINDONSHORE, SMARD_FILTER.WATER, SMARD_FILTER.BIOGAS,
       SMARD_FILTER.SOLAR, SMARD_FILTER.PUMPSTORAGE, SMARD_FILTER.RENEWABLE_MISC >>

\* line 227: the key of SMARD_FILTER whose value is fltr (the codes are distinct,
\* so the first such key is the only one)
FilterName(fltr) == CHOOSE k \in DOMAIN SMARD_FILTER : SMARD_FILTER[k] = fltr

\* the summands of lines 131 and 132, in the order written, and the denominator
RenewColumns ==
    << "WINDOFFSHORE", "WINDONSHORE", "WATER", "BIOGAS", "SOLAR", "PUMPSTORAGE",
       "RENEWABLE_MISC" >>

FossilColumns == << "BRAUNKOHLE", "STEINKOHLE", "GAS", "FOSSIL_MISC" >>

LoadColumn == "NETZLAST"

-----------------------------------------------------------------------------
(* Cells and float arithmetic as pandas/numpy perform it *)

Num(n) == [k |-> "num", v |-> n]
NaN == [k |-> "nan", v |-> 0]
Inf(s) == [k |-> "inf", v |-> s]
Null == [k |-> "null", v |-> 0]
Time(t) == [k |-> "ts", v |-> t]

\* a delivered value as a float64 cell: None becomes NaN
AsFloat(value) == IF value.k = "null" THEN NaN ELSE value

\* float addition (Series.__add__): NaN propagates
FloatAdd(a, b) ==
    IF a.k = "nan" \/ b.k = "nan" THEN NaN
    ELSE IF a.k = "inf" /\ b.k = "inf" THEN (IF a.v = b.v THEN a ELSE NaN)
    ELSE IF a.k = "inf" THEN a
    ELSE IF b.k = "inf" THEN b
    ELSE Num(a.v + b.v)

Sign(n) == IF n > 0 THEN 1 ELSE IF n < 0 THEN 0 - 1 ELSE 0
Abs(n) == IF n < 0 THEN 0 - n ELSE n

\* num/den rounded to the nearest integer, ties to the even one (numpy's round)
RoundHalfEven(num, den) ==
    LET n == Abs(num)
        d == Abs(den)
        q == n \div d
        r == n % d
        up == \/ 2 * r > d
              \/ (2 * r = d /\ q % 2 = 1)
        m == IF up THEN q + 1 ELSE q
    IN  Sign(num) * Sign(den) * m

\* Series.round(2) of a sum of metric values: the result, in hundredths
Round2OfSum(a) == IF a.k = "num" THEN Num(RoundHalfEven(a.v * 100, 1)) ELSE a

\* ((total / load) * 100).round(2), in hundredths; total is held in hundredths,
\* load in units.  Float division: x/0 is +-inf, 0/0 and anything with NaN is NaN.
PercentOf(total, load) ==
    IF total.k = "nan" \/ load.k = "nan" THEN NaN
    ELSE IF total.k = "inf" THEN total
    ELSE IF load.v = 0 THEN (IF total.v = 0 THEN NaN ELSE Inf(Sign(total.v)))
    ELSE Num(RoundHalfEven(total.v * 100, load.v))

-----------------------------------------------------------------------------
(* Sequence helpers *)

Range(s) == { s[n] : n \in DOMAIN s }

RECURSIVE FlattenSeq(_)
FlattenSeq(ss) == IF ss = << >> THEN << >> ELSE Head(ss) \o FlattenSeq(Tail(ss))

\* the elements of a finite set of integers in ascending order
RECURSIVE SortAsc(_)
SortAsc(S) ==
    IF S = {} THEN << >>
    ELSE LET lo == CHOOSE x \in S : \A y \in S : x <= y
         IN  << lo >> \o SortAsc(S \ {lo})

-----------------------------------------------------------------------------
(* transform_data, src/main.py:101-140 *)

DataFrame(rows) == [kind |-> "df", exc |-> "none", rows |-> rows]
Raised(e) == [kind |-> "raise", exc |-> e, rows |-> << >>]

\* pd.DataFrame(): no rows, no columns
EmptyDataFrame == DataFrame(<< >>)

\* a table is never taken to be empty (the test of line 236 left out)
NeverEmpty(df) == FALSE

\* df.empty
IsEmpty(df) == df.rows = << >>

\* line 115: the Value column is numeric (None read as NaN) unless every value is
\* None, and then it is an object column
ValueIsObject(raw) == \A n \in DOMAIN raw : raw[n][3].k = "null"

\* line 119: DataFrame.pivot refuses an index/column pair that occurs twice
PivotHasDuplicate(raw) ==
    \E m, n \in DOMAIN raw : m < n /\ raw[m][1] = raw[n][1] /\ raw[m][2] = raw[n][2]

\* lines 119-120: one row per Timestamp, one column per Filter that occurs, NaN
\* where the pair has no record; the index comes out ascending
PivotCell(raw, ts, name) ==
    IF \E n \in DOMAIN raw : raw[n][1] = ts /\ raw[n][2] = name
    THEN AsFloat(raw[CHOOSE n \in DOMAIN raw : raw[n][1] = ts /\ raw[n][2] = name][3])
    ELSE NaN

Pivot(raw) ==
    LET stamps == { raw[n][1] : n \in DOMAIN raw }
        names == { raw[n][2] : n \in DOMAIN raw }
        order == SortAsc(stamps)
    IN  [ n \in DOMAIN order |->
            [ c \in names \cup {"Timestamp"} |->
                IF c = "Timestamp" THEN Num(order[n]) ELSE PivotCell(raw, order[n], c) ] ]

\* line 123: sort_values(by=['Timestamp']); stable insertion of each row
RECURSIVE SortByTimestamp(_)
InsertByTimestamp(row, sorted) ==
    LET before == SelectSeq(sorted, LAMBDA r : r["Timestamp"].v <= row["Timestamp"].v)
        after == SelectSeq(sorted, LAMBDA r : r["Timestamp"].v > row["Timestamp"].v)
    IN  before \o << row >> \o after
SortByTimestamp(rows) ==
    IF rows = << >> THEN << >>
    ELSE InsertByTimestamp(rows[Len(rows)], SortByTimestamp(SubSeq(rows, 1, Len(rows) - 1)))

\* line 124: pd.to_datetime(..., unit='ms'): epoch milliseconds to datetime64[ns]
ToDatetime(ms) == Time(ms * 1000000)

\* lines 124-125: DatumUhrzeit replaces Timestamp
WithDatumUhrzeit(row) ==
    [ c \in (DOMAIN row \ {"Timestamp"}) \cup {"DatumUhrzeit"} |->
        IF c = "DatumUhrzeit" THEN ToDatetime(row["Timestamp"].v) ELSE row[c] ]

\* duplicates judged on the value columns alone, DatumUhrzeit left out
RECURSIVE DropDuplicatesByValues(_)
DropDuplicatesByValues(rows) ==
    IF rows = << >> THEN << >>
    ELSE LET init == SubSeq(rows, 1, Len(rows) - 1)
             last == rows[Len(rows)]
             values(r) == [ c \in DOMAIN r \ {"DatumUhrzeit"} |-> r[c] ]
         IN  IF \E n \in DOMAIN init : values(init[n]) = values(last)
             THEN DropDuplicatesByValues(init)
             ELSE DropDuplicatesByValues(init) \o << last >>

\* line 128: drop_duplicates(): a row equal to an earlier one in every column goes
RECURSIVE DropDuplicates(_)
DropDuplicates(rows) ==
    IF rows = << >> THEN << >>
    ELSE LET init == SubSeq(rows, 1, Len(rows) - 1)
             last == rows[Len(rows)]
         IN  IF \E n \in DOMAIN init : init[n] = last
             THEN DropDuplicates(init)
             ELSE DropDuplicates(init) \o << last >>

\* df[a] + df[b] + ... of one row, left to right
RECURSIVE SumColumns(_, _)
SumColumns(row, cols) ==
    IF Len(cols) = 1 THEN row[cols[1]]
    ELSE FloatAdd(SumColumns(row, SubSeq(cols, 1, Len(cols) - 1)), row[cols[Len(cols)]])

\* lines 131-134 on one row
Derive(row) ==
    LET renew == Round2OfSum(SumColumns(row, RenewColumns))
        fossil == Round2OfSum(SumColumns(row, FossilColumns))
    IN  [ c \in DOMAIN row \cup {"Total_Renew", "Total_Fossil", "Renew_Perc", "Fossil_Perc"} |->
            CASE c = "Total_Renew" -> renew
              [] c = "Total_Fossil" -> fossil
              [] c = "Renew_Perc" -> PercentOf(renew, row[LoadColumn])
              [] c = "Fossil_Perc" -> PercentOf(fossil, row[LoadColumn])
              [] OTHER -> row[c] ]

\* Series.round of an object column depends on the pandas installed: it raises
\* TypeError (numpy has no rint for the objects) or returns the column as it is
PandasBuilds == {"object_round_raises", "object_round_copies"}

\* lines 131-134: what evaluating the four assignments raises, if anything.
\* df['X'] of a column that no record named is a KeyError.  Object columns add
\* to an object column of NaN (the missing values are masked out), which the
\* first .round(2) then meets.
DeriveError(raw, build) ==
    LET names == { raw[n][2] : n \in DOMAIN raw }
    IN  IF \E n \in DOMAIN RenewColumns : RenewColumns[n] \notin names THEN "KeyError"
        ELSE IF ValueIsObject(raw) /\ build = "object_round_raises" THEN "TypeError"
        ELSE IF \E n \in DOMAIN FossilColumns : FossilColumns[n] \notin names THEN "KeyError"
        ELSE IF LoadColumn \notin names THEN "KeyError"
        ELSE "none"

\* build: the pandas installed, one of PandasBuilds
transform_data(raw, build) ==
    IF raw = << >> THEN EmptyDataFrame
    ELSE IF PivotHasDuplicate(raw) THEN Raised("ValueError")
    ELSE IF DeriveError(raw, build) # "none" THEN Raised(DeriveError(raw, build))
    ELSE LET wide == SortByTimestamp(Pivot(raw))
             dated == [ n \in DOMAIN wide |-> WithDatumUhrzeit(wide[n]) ]
             unique == DropDuplicates(dated)
         IN  DataFrame([ n \in DOMAIN unique |-> Derive(unique[n]) ])

-----------------------------------------------------------------------------
(* The SMARD API as the two readers see it.  An HTTP exchange is a record:   *)
(*   transport  "ok", or the requests exception the call ends with           *)
(*   status     the HTTP status code of the answer                           *)
(*   json       whether the body parses as JSON                              *)
(*   haskey     whether the JSON object holds the container key              *)
(*              ('timestamps' for the index, 'series' for a block)           *)
(*   data       the value under that key                                     *)

Response(transport, status, json, haskey, data) ==
    [transport |-> transport, status |-> status, json |-> json, haskey |-> haskey,
     data |-> data]

Returned(value) == [exc |-> "none", ret |-> value]
Propagated(e) == [exc |-> e, ret |-> << >>]

\* src/main.py:55-70.  requests.get raising (connection error, timeout) and
\* r.json() raising (requests' JSONDecodeError, a RequestException since
\* requests 2.27; line 185 calls gspread in its version 6 argument order, so the
\* installation is newer than that) are caught; the status code is only printed;
\* data["timestamps"] of an object without that key is a KeyError, which no
\* except clause names.
get_available_blocks(r) ==
    IF r.transport # "ok" THEN Returned(<< >>)
    ELSE IF ~r.json THEN Returned(<< >>)
    ELSE IF ~r.haskey THEN Propagated("KeyError")
    ELSE Returned(r.data)

\* src/main.py:76-95.  raise_for_status turns a 4xx/5xx answer into an HTTPError,
\* caught with the rest; a missing or empty 'series' returns [].
fetch_smard_data(r) ==
    IF r.transport # "ok" THEN Returned(<< >>)
    ELSE IF r.status >= 400 THEN Returned(<< >>)
    ELSE IF ~r.json THEN Returned(<< >>)
    ELSE IF ~r.haskey \/ r.data = << >> THEN Returned(<< >>)
    ELSE Returned(r.data)

-----------------------------------------------------------------------------
(* What the API may hold for one metric: its index answer and, per block id, *)
(* its block answer.  Block ids are block starts in epoch milliseconds.      *)

BlockIds == {500, 1000, 2000}

Ok(data) == Response("ok", 200, TRUE, TRUE, data)
ConnectionError == Response("ConnectionError", 0, FALSE, FALSE, << >>)
Timeout == Response("Timeout", 0, FALSE, FALSE, << >>)
NotJson(status) == Response("ok", status, FALSE, FALSE, << >>)
NoKey == Response("ok", 200, TRUE, FALSE, << >>)

\* the nominal block: one observation, at the block's start
Series(b, value) == << << b, value >> >>
NominalBlocks == [b \in BlockIds |-> Ok(Series(b, Num(1)))]
NominalIndex == Ok(<< 1000, 2000, 500 >>)

Metric(index, block) == [index |-> index, block |-> block]

Healthy == Metric(NominalIndex, NominalBlocks)

\* no connection: the index call fails, and no block call is made
Down == Metric(ConnectionError, NominalBlocks)

IndexAnswers ==
    { ConnectionError, Timeout, NotJson(404), NotJson(200), NoKey,
      Ok(<< >>), Ok(<< 2000 >>), Ok(<< 1000, 1000, 500 >>),
      Response("ok", 500, TRUE, TRUE, << 500, 2000, 1000 >>) }

NewestBlockAnswers ==
    { ConnectionError, NotJson(200), NoKey, Ok(<< >>),
      Response("ok", 404, TRUE, TRUE, Series(2000, Num(1))),
      Ok(Series(2000, Null)),
      Ok(<< << 2000, Num(1) >>, << 2001, Num(2) >> >>),
      Ok(Series(1000, Num(1))) }

MetricBehaviours ==
    {Healthy, Down}
    \cup { Metric(ix, NominalBlocks) : ix \in IndexAnswers }
    \cup { Metric(NominalIndex, [NominalBlocks EXCEPT ![2000] = a]) : a \in NewestBlockAnswers }
    \cup { Metric(NominalIndex, [b \in BlockIds |-> Timeout]) }

\* how many metrics of one run may answer differently from the rest
MaxDeviations == 1

-----------------------------------------------------------------------------
(* run_etl, src/main.py:195-264, one action per step between two calls *)

NoFrame == [kind |-> "none", exc |-> "none", rows |-> << >>]
NoException == [type |-> "none", site |-> "none"]
Exception(type, site) == [type |-> type, site |-> site]

\* what the worksheet holds before the run
PriorSheet ==
    [header |-> << "prior" >>, rows |-> << << [k |-> "str", v |-> 0], "prior", Num(0) >> >>]

Call(fn, data_id, region, block, ret) ==
    [fn |-> fn, data_id |-> data_id, region |-> region, block |-> block, ret |-> ret]

\* the sort without reverse=True: ascending
RECURSIVE SortForward(_)
SortForward(bs) ==
    IF bs = << >> THEN << >>
    ELSE LET b == bs[Len(bs)]
             sorted == SortForward(SubSeq(bs, 1, Len(bs) - 1))
         IN  SelectSeq(sorted, LAMBDA x : x <= b) \o << b >>
                \o SelectSeq(sorted, LAMBDA x : x > b)

\* line 222: blocks.sort(reverse=True), by insertion
RECURSIVE SortReverse(_)
InsertReverse(b, sorted) ==
    SelectSeq(sorted, LAMBDA x : x >= b) \o << b >> \o SelectSeq(sorted, LAMBDA x : x < b)
SortReverse(bs) ==
    IF bs = << >> THEN << >>
    ELSE InsertReverse(bs[Len(bs)], SortReverse(SubSeq(bs, 1, Len(bs) - 1)))

\* line 224: blocks[0:BLOCKS_TO_FETCH]
Slice(bs) == SubSeq(bs, 1, IF Len(bs) < BLOCKS_TO_FETCH THEN Len(bs) ELSE BLOCKS_TO_FETCH)

\* lines 227-229: the buffer's observations as long records under the metric's name
Tagged(buffer, fltr) ==
    [ n \in DOMAIN buffer |-> << buffer[n][1], FilterName(fltr), buffer[n][2] >> ]

\* the buffer left as it is
NotCleared(buffer) == buffer

\* line 231: raw_data.clear()
Cleared(buffer) == << >>

BaseBehaviour == IF base = "up" THEN Healthy ELSE Down

\* lines 219-222: the next metric's index call and the sort of what it returned
GetBlocks ==
    /\ pc = "index"
    /\ \E m \in MetricBehaviours :
        /\ m # BaseBehaviour => deviations < MaxDeviations
        /\ deviations' = IF m # BaseBehaviour THEN deviations + 1 ELSE deviations
        /\ upstream' = m
        /\ LET r == get_available_blocks(m.index)
           IN  /\ calls' = Append(calls,
                        Call("get_available_blocks", filter_lst[fi], REGION, 0, r.ret))
               /\ IF r.exc # "none"
                  THEN /\ pc' = "raised"
                       /\ exc' = Exception(r.exc, "get_available_blocks")
                       /\ UNCHANGED blocks
                  ELSE /\ pc' = "fetch"
                       /\ blocks' = SortReverse(r.ret)
                       /\ UNCHANGED exc
    /\ bi' = 1
    /\ UNCHANGED << base, fi, raw_data, raw_data_frame, df_clean, csv_file, sheet,
                    sink_calls, raw_in, out_once, out_twice >>

\* lines 224-225: one block fetched and appended to the buffer
FetchBlock ==
    /\ pc = "fetch"
    /\ bi <= Len(Slice(blocks))
    /\ LET block == Slice(blocks)[bi]
           r == fetch_smard_data(upstream.block[block])
       IN  /\ raw_data' = raw_data \o r.ret
           /\ calls' = Append(calls,
                    Call("fetch_smard_data", filter_lst[fi], REGION, block, r.ret))
    /\ bi' = bi + 1
    /\ UNCHANGED << base, deviations, upstream, pc, fi, blocks, raw_data_frame, df_clean,
                    csv_file, sheet, sink_calls, exc, raw_in, out_once, out_twice >>

\* lines 227-231: the buffer is tagged, appended to the long records and cleared
EndMetric ==
    /\ pc = "fetch"
    /\ bi > Len(Slice(blocks))
    /\ raw_data_frame' = raw_data_frame \o Tagged(raw_data, filter_lst[fi])
    /\ raw_data' = Cleared(raw_data)
    /\ IF fi < Len(filter_lst)
       THEN fi' = fi + 1 /\ pc' = "index"
       ELSE fi' = fi /\ pc' = "transform"
    /\ UNCHANGED << base, deviations, upstream, blocks, bi, df_clean, csv_file, sheet,
                    sink_calls, exc, calls, raw_in, out_once, out_twice >>

\* lines 234-238: transform, and the return when the table is empty
Transform ==
    /\ pc = "transform"
    /\ \E build \in PandasBuilds :
        LET df == transform_data(raw_data_frame, build)
        IN  IF df.kind = "raise"
            THEN /\ pc' = "raised"
                 /\ exc' = Exception(df.exc, "transform_data")
                 /\ UNCHANGED df_clean
            ELSE /\ df_clean' = df
                 /\ pc' = IF IsEmpty(df) THEN "done" ELSE "save"
                 /\ UNCHANGED exc
    /\ UNCHANGED << base, deviations, upstream, fi, blocks, bi, raw_data, raw_data_frame,
                    csv_file, sheet, sink_calls, calls, raw_in, out_once, out_twice >>

\* lines 242-244: the table is written to smard_data.csv
SaveCsv ==
    /\ pc = "save"
    /\ csv_file' = df_clean
    /\ pc' = "load"
    /\ UNCHANGED << base, deviations, upstream, fi, blocks, bi, raw_data, raw_data_frame,
                    df_clean, sheet, sink_calls, exc, calls, raw_in, out_once, out_twice >>

\* line 249: fillna(0)
FillNa(cell) == IF cell.k = "nan" THEN Num(0) ELSE cell

\* line 251: strftime('%Y-%m-%d %H:%M:%S'): the text names the second, no finer
Strftime(t) == [k |-> "str", v |-> t.v \div 1000000000]

\* line 256: value_vars
MeltColumns ==
    << "NETZLAST", "BRAUNKOHLE", "STEINKOHLE", "GAS", "FOSSIL_MISC", "WINDOFFSHORE",
       "WINDONSHORE", "WATER", "BIOGAS", "SOLAR", "PUMPSTORAGE", "RENEWABLE_MISC",
       "Renew_Perc", "Fossil_Perc" >>

\* lines 248-259: df_long, one row per value column and table row
Melted(df) ==
    FlattenSeq([ c \in DOMAIN MeltColumns |->
        [ n \in DOMAIN df.rows |->
            << Strftime(df.rows[n]["DatumUhrzeit"]), MeltColumns[c],
               FillNa(df.rows[n][MeltColumns[c]]) >> ] ])

\* the environment of the sink: the GCP_CREDENTIALS variable, and how opening the
\* spreadsheet ends
Credentials == {"missing", "unparsable", "valid"}
Connections == {"ok", "SpreadsheetNotFound", "Exception"}

\* the gspread call of lines 181-187 that fails, if one does
WriteFailures == {"none", "clear", "update", "append_rows"}

\* lines 146-174, entered from line 260: credentials, authentication, opening the
\* sheet; each failure prints and returns
OpenSheet ==
    /\ pc = "load"
    /\ sink_calls' = sink_calls + 1
    /\ \E cred \in Credentials, conn \in Connections :
        pc' = IF cred = "valid" /\ conn = "ok" THEN "write" ELSE "done"
    /\ UNCHANGED << base, deviations, upstream, fi, blocks, bi, raw_data, raw_data_frame,
                    df_clean, csv_file, sheet, exc, calls, raw_in, out_once, out_twice >>

\* lines 178-189: clear, header, rows; none of the three calls is inside a try
WriteSheet ==
    /\ pc = "write"
    /\ \E fail \in WriteFailures :
        /\ sheet' = CASE fail = "clear" -> sheet
                      [] fail = "update" -> [header |-> << >>, rows |-> << >>]
                      [] fail = "append_rows" ->
                            [header |-> << "DatumUhrzeit", "Energiequelle", "Werte" >>,
                             rows |-> << >>]
                      [] OTHER ->
                            [header |-> << "DatumUhrzeit", "Energiequelle", "Werte" >>,
                             rows |-> Melted(df_clean)]
        /\ IF fail = "none"
           THEN pc' = "done" /\ UNCHANGED exc
           ELSE pc' = "raised" /\ exc' = Exception("APIError", "load_to_google_sheets")
    /\ UNCHANGED << base, deviations, upstream, fi, blocks, bi, raw_data, raw_data_frame,
                    df_clean, csv_file, sink_calls, calls, raw_in, out_once, out_twice >>

Init ==
    /\ base \in {"up", "down"}
    /\ deviations = 0
    /\ upstream = BaseBehaviour
    /\ pc = "index"
    /\ fi = 1
    /\ blocks = << >>
    /\ bi = 1
    /\ raw_data = << >>
    /\ raw_data_frame = << >>
    /\ df_clean = NoFrame
    /\ csv_file = NoFrame
    /\ sheet = PriorSheet
    /\ sink_calls = 0
    /\ exc = NoException
    /\ calls = << >>
    /\ raw_in = << >>
    /\ out_once = NoFrame
    /\ out_twice = NoFrame

Next ==
    \/ GetBlocks
    \/ FetchBlock
    \/ EndMetric
    \/ Transform
    \/ SaveCsv
    \/ OpenSheet
    \/ WriteSheet

Spec == Init /\ [][Next]_vars

-----------------------------------------------------------------------------
(* transform_data on its own: the long-record lists it is applied to.  Every  *)
(* metric of filter_lst delivers the same two observations, but for at most   *)
(* MaxDeviations metrics, which deliver one of the other series.              *)

BaseValues == {Null, Num(0), Num(1)}

BaseSeries(bv) == << << 500, bv >>, << 1000, bv >> >>

OtherSeries(bv) ==
    { << >>,
      << << 500, bv >> >>,
      << << 500, bv >>, << 1000, Null >> >>,
      << << 500, Null >>, << 1000, Null >> >>,
      << << 500, Num(0) >>, << 1000, bv >> >>,
      << << 500, Num(3) >>, << 1000, Num(3) >> >>,
      << << 500, bv >>, << 500, bv >>, << 1000, bv >> >>,
      << << 500, bv >>, << 500, Num(3) >>, << 1000, bv >> >>,
      << << 1000, bv >>, << 500, bv >> >>,
      << << 500, bv >>, << 1000, bv >>, << 2000, Num(2) >> >> } \ {BaseSeries(bv)}

\* the sets of at most MaxDeviations metrics, as positions of filter_lst
DeviatingSets ==
    { D \in SUBSET DOMAIN filter_lst : Cardinality(D) <= MaxDeviations }

LongRecords(assignment) ==
    FlattenSeq([ n \in DOMAIN filter_lst |-> Tagged(assignment[n], filter_lst[n]) ])

InitFn ==
    /\ \E bv \in BaseValues, D \in DeviatingSets :
        \E other \in [D -> OtherSeries(bv)] :
            raw_in = LongRecords([ n \in DOMAIN filter_lst |->
                        IF n \in D THEN other[n] ELSE BaseSeries(bv) ])
    /\ out_once = NoFrame
    /\ out_twice = NoFrame
    /\ pc = "apply"
    /\ base = "up"
    /\ deviations = 0
    /\ upstream = Healthy
    /\ fi = 1
    /\ blocks = << >>
    /\ bi = 1
    /\ raw_data = << >>
    /\ raw_data_frame = << >>
    /\ df_clean = NoFrame
    /\ csv_file = NoFrame
    /\ sheet = PriorSheet
    /\ sink_calls = 0
    /\ exc = NoException
    /\ calls = << >>

\* transform_data applied to the list, and to the list concatenated with itself
ApplyTransform ==
    /\ pc = "apply"
    /\ \E build \in PandasBuilds :
        /\ out_once' = transform_data(raw_in, build)
        /\ out_twice' = transform_data(raw_in \o raw_in, build)
    /\ pc' = "applied"
    /\ UNCHANGED << base, deviations, upstream, fi, blocks, bi, raw_data, raw_data_frame,
                    df_clean, csv_file, sheet, sink_calls, exc, calls, raw_in >>

NextFn == ApplyTransform

SpecFn == InitFn /\ [][NextFn]_vars

-----------------------------------------------------------------------------
(* Properties of run_etl, checked under Spec *)

\* the metrics whose iteration of the extract loop has ended
MetricsDone == IF pc \in {"index", "fetch"} \/ exc.site = "get_available_blocks"
               THEN fi - 1 ELSE Len(filter_lst)

\* the extract loop has run to its end
Collected ==
    /\ pc \notin {"index", "fetch"}
    /\ exc.site # "get_available_blocks"

HasRecords(name) == \E n \in DOMAIN raw_data_frame : raw_data_frame[n][2] = name

ConfiguredNames == { k \in DOMAIN SMARD_FILTER : SMARD_FILTER[k] \in Range(filter_lst) }

\* C1: when some configured metric delivered nothing and another delivered
\* observations, the run does not raise in the transform, the table is not empty
\* and holds every delivered (timestamp, value) in its metric's column; and the run
\* ends on "nothing to save" only when no metric delivered anything.
C1_PartialUnavailabilityNonFatal ==
    /\ ( /\ Collected
         /\ pc # "transform"
         /\ \E a, b \in ConfiguredNames : ~HasRecords(a) /\ HasRecords(b) )
       => /\ exc.site # "transform_data"
          /\ df_clean.kind = "df"
          /\ ~IsEmpty(df_clean)
          /\ \A n \in DOMAIN raw_data_frame :
                \E r \in DOMAIN df_clean.rows :
                    /\ df_clean.rows[r]["DatumUhrzeit"] = Time(raw_data_frame[n][1] * 1000000)
                    /\ raw_data_frame[n][2] \in DOMAIN df_clean.rows[r]
                    /\ df_clean.rows[r][raw_data_frame[n][2]] = AsFloat(raw_data_frame[n][3])
    /\ (pc = "done" /\ IsEmpty(df_clean)) => raw_data_frame = << >>

\* C5: whatever the HTTP call ends with, neither reader lets an exception out
\* to run_etl.
C5_UpstreamFailuresNeverRaised ==
    /\ exc.site # "get_available_blocks"
    /\ exc.site # "fetch_smard_data"

\* C6: the buffer is empty whenever a metric's iteration starts, and the long
\* records are exactly the observations that the fetch calls made for the
\* finished metrics returned, in call order, each once, under the name configured
\* for the code it was fetched with.
C6_NoCrossMetricContamination ==
    /\ pc = "index" => raw_data = << >>
    /\ LET done == { filter_lst[n] : n \in 1..MetricsDone }
           made == SelectSeq(calls,
                        LAMBDA e : e.fn = "fetch_smard_data" /\ e.data_id \in done)
           fetched == FlattenSeq([ n \in DOMAIN made |->
                        [ o \in DOMAIN made[n].ret |->
                            [code |-> made[n].data_id, obs |-> made[n].ret[o]] ] ])
       IN  /\ Len(raw_data_frame) = Len(fetched)
           /\ \A n \in DOMAIN raw_data_frame :
                /\ raw_data_frame[n][1] = fetched[n].obs[1]
                /\ raw_data_frame[n][3] = fetched[n].obs[2]
                /\ raw_data_frame[n][2] \in DOMAIN SMARD_FILTER
                /\ SMARD_FILTER[raw_data_frame[n][2]] = fetched[n].code

C6_Witness ==
    /\ pc = "index"
    /\ fi > 2
    /\ \E m, n \in DOMAIN raw_data_frame : raw_data_frame[m][2] # raw_data_frame[n][2]

\* C7: when the extract loop ended with no long record at all, transform_data
\* returned the empty table without raising and the run ended there: no CSV file
\* written, the sink never entered, the worksheet untouched.
C7_EmptyInputTerminalState ==
    (Collected /\ pc # "transform" /\ raw_data_frame = << >>)
    => /\ pc = "done"
       /\ exc = NoException
       /\ df_clean = EmptyDataFrame
       /\ csv_file = NoFrame
       /\ sink_calls = 0
       /\ sheet = PriorSheet

C7_Witness ==
    /\ pc = "done"
    /\ raw_data_frame = << >>
    /\ df_clean = EmptyDataFrame
    /\ Len(calls) >= Len(filter_lst)

\* C8: once the sink has been entered the CSV file holds the whole table, and
\* however the sink fails, no exception leaves run_etl.
C8_SinkFailureContained ==
    sink_calls > 0
    => /\ ~IsEmpty(df_clean)
       /\ csv_file = df_clean
       /\ pc # "raised"

IsIndexCall(p) == calls[p].fn = "get_available_blocks"
IsFetchCall(p) == calls[p].fn = "fetch_smard_data"
PositionOf(code) == CHOOSE n \in DOMAIN filter_lst : filter_lst[n] = code
Wanted(B) == IF Len(B) < BLOCKS_TO_FETCH THEN Len(B) ELSE BLOCKS_TO_FETCH

\* call p is the k-th block call after the index call at p - k
KthFetchAfterIndex(p, k) ==
    /\ p - k >= 1
    /\ IsIndexCall(p - k)
    /\ \A j \in 1..(k - 1) : IsFetchCall(p - j)

\* C10: after the index call of a metric returned the list B, the block calls
\* that follow carry that metric's code and the region; the k-th of them fetches
\* the k-th largest identifier of B; there are never more than
\* min(BLOCKS_TO_FETCH, |B|) of them and, once the metric is done, exactly that
\* many.  The index calls come in the configured order, each after the block
\* calls of the metric before.
C10_MostRecentBlocksFetched ==
    \A p \in DOMAIN calls :
        IF IsIndexCall(p)
        THEN LET want == Wanted(calls[p].ret)
             IN  /\ calls[p].region = REGION
                 /\ calls[p].data_id \in Range(filter_lst)
                 /\ p = 1 => calls[p].data_id = filter_lst[1]
                 /\ p > 1 =>
                        \E k \in 1..(BLOCKS_TO_FETCH + 1) :
                            /\ KthFetchAfterIndex(p, k)
                            /\ k - 1 = Wanted(calls[p - k].ret)
                            /\ PositionOf(calls[p].data_id)
                                    = PositionOf(calls[p - k].data_id) + 1
                 /\ PositionOf(calls[p].data_id) <= MetricsDone =>
                        /\ p + want <= Len(calls)
                        /\ \A j \in 1..want : IsFetchCall(p + j)
                        /\ p + want < Len(calls) => IsIndexCall(p + want + 1)
        ELSE /\ IsFetchCall(p)
             /\ \E k \in 1..BLOCKS_TO_FETCH :
                    /\ KthFetchAfterIndex(p, k)
                    /\ LET B == calls[p - k].ret
                       IN  /\ calls[p].data_id = calls[p - k].data_id
                           /\ calls[p].region = REGION
                           /\ Cardinality({ j \in DOMAIN B : B[j] > calls[p].block }) < k
                           /\ Cardinality({ j \in DOMAIN B : B[j] >= calls[p].block }) >= k

C10_Witness ==
    /\ pc = "transform"
    /\ \E p \in DOMAIN calls :
        /\ IsIndexCall(p)
        /\ calls[p].data_id = filter_lst[Len(filter_lst)]
        /\ calls[p].ret = << 1000, 2000, 500 >>
        /\ Len(calls) = p + 2
        /\ calls[p + 1].block = 2000
        /\ calls[p + 2].block = 1000

-----------------------------------------------------------------------------
(* Properties of transform_data, checked under SpecFn *)

Stamps(raw) == { raw[n][1] : n \in DOMAIN raw }
Names(raw) == { raw[n][2] : n \in DOMAIN raw }
HasRecord(raw, ts, name) == \E n \in DOMAIN raw : raw[n][1] = ts /\ raw[n][2] = name

\* C2: transform_data of a list concatenated with itself returns the table it
\* returns for the list.
C2_DoublingIsIdempotent ==
    (pc = "applied" /\ out_once.kind = "df") => out_twice = out_once

\* C3: in every row of the returned table whose NETZLAST is 0 or missing, both
\* percent columns are 0.
C3_PercentSafety ==
    (pc = "applied" /\ out_once.kind = "df")
    => \A n \in DOMAIN out_once.rows :
        LET row == out_once.rows[n]
        IN  (row[LoadColumn] = Num(0) \/ row[LoadColumn] = NaN)
            => /\ row["Renew_Perc"] = Num(0)
               /\ row["Fossil_Perc"] = Num(0)

\* the sum of the columns of a row, a missing value counting as 0
RECURSIVE SumNullAsZero(_, _)
SumNullAsZero(row, cols) ==
    IF cols = << >> THEN 0
    ELSE (IF row[Head(cols)].k = "num" THEN row[Head(cols)].v ELSE 0)
         + SumNullAsZero(row, Tail(cols))

\* C4: in every row of the returned table Total_Renew and Total_Fossil are the
\* sums of the renewable and of the fossil columns with a missing value counted
\* as 0, and a value delivered as null is missing in its own column.
C4_NullCountsAsZeroInSums ==
    (pc = "applied" /\ out_once.kind = "df")
    => /\ \A n \in DOMAIN out_once.rows :
            LET row == out_once.rows[n]
            IN  /\ row["Total_Renew"] = Num(100 * SumNullAsZero(row, RenewColumns))
                /\ row["Total_Fossil"] = Num(100 * SumNullAsZero(row, FossilColumns))
       /\ \A m \in DOMAIN raw_in :
            raw_in[m][3] = Null
            => \E n \in DOMAIN out_once.rows :
                /\ out_once.rows[n]["DatumUhrzeit"] = Time(raw_in[m][1] * 1000000)
                /\ out_once.rows[n][raw_in[m][2]] = NaN

\* C9: a returned table has exactly one row per distinct timestamp of the input,
\* no two rows are equal, and a timestamp without a record for some metric has
\* its row, with a missing value in that metric's column.
C9_OneRowPerTimestamp ==
    (pc = "applied" /\ out_once.kind = "df")
    => LET rows == out_once.rows
       IN  /\ Len(rows) = Cardinality(Stamps(raw_in))
           /\ \A m, n \in DOMAIN rows : m # n => rows[m] # rows[n]
           /\ \A ts \in Stamps(raw_in) :
                \E n \in DOMAIN rows :
                    /\ rows[n]["DatumUhrzeit"] = Time(ts * 1000000)
                    /\ \A c \in Names(raw_in) :
                        /\ c \in DOMAIN rows[n]
                        /\ ~HasRecord(raw_in, ts, c) => rows[n][c] = NaN

C9_Witness ==
    /\ pc = "applied"
    /\ out_once.kind = "df"
    /\ Len(out_once.rows) = 3
    /\ \E ts \in Stamps(raw_in), c \in Names(raw_in) : ~HasRecord(raw_in, ts, c)

====
